---------------------------- MODULE Spec2Model ----------------------------
(* A model of src/src/span.rs: the span builder (StartSpanOptions), the    *)
(* active / disabled Span handle, its Drop, and the mpsc channel that      *)
(* carries FinishedSpan values to the SpanReceiver.                        *)
(*                                                                         *)
(* Option<X> is modelled as a sequence: << >> is None, <<x>> is Some(x).   *)
(* Vec<X> is modelled as a sequence.                                       *)
EXTENDS Integers, Sequences, FiniteSets, TLC

(***************************************************************************)
(* Bounds of the model.                                                    *)
(***************************************************************************)
\* spans started over a run by the programs that use several spans at once
MaxSpans == 2
\* spans started over a run by the programs that explore one span in depth
MaxSpansDeep == 1
\* tag() calls made on one builder
MaxTags == 3
\* child_of / follows_from calls made on one builder
MaxRefs == 2
\* log() calls made on one span
MaxLogs == 2
\* last value of the clock behind SystemTime::now
MaxTime == 1

VARIABLES
    builder,      \* Option<StartSpanOptions>: the builder being configured
    spans,        \* slot -> [status, span, sampled, via, rxAtStart, sent, startedAt,
                  \* finishSet, droppedAt]: span is the
                  \* Option<SpanInner> of Span(..); the rest records what happened to
                  \* the span: what is_sampled() returned right after the start, which
                  \* of start / start_with_context made it, whether the receiver
                  \* existed then, the result of the send in its drop, the clock
                  \* when it was started, the argument of the last set_finish_time
                  \* on it while active, and the clock when it was dropped;
                  \* finishing is the FinishedSpan a thread in the middle of the
                  \* drop has built and not yet sent; logged is the sequence of
                  \* log calls made on the span while active, [fields, time];
                  \* handed is the CandidateSpan the sampler was given when the
                  \* span was started, if it was asked
    queue,        \* FinishedSpan values sent on the channel and not yet received
    received,     \* FinishedSpan values the SpanReceiver has taken
    rxAlive,      \* whether the SpanReceiver still exists
    now,          \* the clock read by SystemTime::now
    samplerLog,   \* slot -> the answers the pluggable sampler gave while that span was finalized
    gateTags,     \* slot -> the finalized tags the sampling gate saw for that span
    lastTag,      \* slot -> (name -> Option<value>): value of the latest tag()/set_tag per name
    lastBaggage,  \* slot -> (name -> Option<value>): value of the latest baggage write per name
    refCalls,     \* the child_of / follows_from calls made on the builder (index 0)
                  \* and on the builder each span was started from (index s),
                  \* in call order: [kind, context], context the Option the
                  \* argument's maybe_as_ref() gave.  Index 0 is kept when a
                  \* builder is abandoned, until the next builder is made
    panicked      \* whether some operation returned an error or panicked

vars == <<builder, spans, queue, received, rxAlive, now, samplerLog, gateTags,
          lastTag, lastBaggage, refCalls, panicked>>

None == << >>
Some(x) == <<x>>
IsSome(o) == o # << >>
Unwrap(o) == o[1]

Slots == 1 .. MaxSpans
Times == 0 .. MaxTime

(***************************************************************************)
(* Names and their order.  Rust compares names as strings (str::cmp, byte  *)
(* wise lexicographic); NameRank gives the position of each name used here *)
(* in that order.                                                          *)
(***************************************************************************)
SamplingPriority == "sampling.priority"
TagNames == {"a", "b", SamplingPriority}
BaggageNames == {"k", "user"}
NameRank ==
    [n \in TagNames \cup BaggageNames |->
        CASE n = "a" -> 1
          [] n = "b" -> 2
          [] n = "k" -> 3
          [] n = SamplingPriority -> 4
          [] n = "user" -> 5]
\* a.name().cmp(b.name()) is Less or Equal
NameLeq(x, y) == NameRank[x] <= NameRank[y]

\* TagValue::Integer(n) and TagValue::String(s)
Integer(n) == [kind |-> "Integer", i |-> n, s |-> ""]
String(str) == [kind |-> "String", i |-> 0, s |-> str]
Tag(n, v) == [name |-> n, value |-> v]
BaggageItem(n, v) == [name |-> n, value |-> v]

(***************************************************************************)
(* Vec operations used by the code.                                        *)
(***************************************************************************)
\* Vec::reverse
Reverse(v) == [i \in 1 .. Len(v) |-> v[Len(v) + 1 - i]]

\* Vec::retain(|x| x.name != name)
RECURSIVE RetainOthers(_, _)
RetainOthers(v, name) ==
    IF v = << >> THEN << >>
    ELSE IF Head(v).name # name
         THEN <<Head(v)>> \o RetainOthers(Tail(v), name)
         ELSE RetainOthers(Tail(v), name)

\* insertion of x into a name-sorted vector after every element that is not greater
RECURSIVE InsertSorted(_, _)
InsertSorted(sorted, x) ==
    IF sorted = << >> THEN <<x>>
    ELSE IF NameLeq(Head(sorted).name, x.name)
         THEN <<Head(sorted)>> \o InsertSorted(Tail(sorted), x)
         ELSE <<x>> \o sorted

\* Vec::sort_by(|a, b| a.name().cmp(b.name())): a stable sort by name
RECURSIVE SortByName(_)
SortByName(v) ==
    IF v = << >> THEN << >>
    ELSE InsertSorted(SortByName(SubSeq(v, 1, Len(v) - 1)), v[Len(v)])

\* Vec::dedup_by(|a, b| a.name() == b.name()): of consecutive elements with
\* the same name all but the first are removed
RECURSIVE DedupByName(_)
DedupByName(v) ==
    IF Len(v) <= 1 THEN v
    ELSE LET init == DedupByName(SubSeq(v, 1, Len(v) - 1))
             x == v[Len(v)]
         IN IF init[Len(init)].name = x.name THEN init ELSE Append(init, x)

\* mutant of NormalizeVec: the reversal is left out
NormalizeVecNoReverse(v) == DedupByName(SortByName(v))

\* mutant of NormalizeVec: the sort is left out
NormalizeVecNoSort(v) == DedupByName(Reverse(v))

\* the three steps normalize applies to tags and to baggage_items alike
NormalizeVec(v) == DedupByName(SortByName(Reverse(v)))

\* Iterator::find(|x| x.name == name): the first match, as an Option
RECURSIVE FindByName(_, _)
FindByName(v, name) ==
    IF v = << >> THEN None
    ELSE IF Head(v).name = name THEN Some(Head(v)) ELSE FindByName(Tail(v), name)


(***************************************************************************)
(* The builder: StartSpanOptions.                                          *)
(***************************************************************************)
\* StartSpanOptions::new
StartSpanOptionsNew(operation_name) ==
    [operation_name |-> operation_name,
     start_time |-> None,
     tags |-> << >>,
     references |-> << >>,
     baggage_items |-> << >>]

ChildOf(state) == [kind |-> "ChildOf", state |-> state]
\* mutant of FollowsFrom: the reference is made with the other kind
FollowsFromAsChildOf(state) == [kind |-> "ChildOf", state |-> state]

FollowsFrom(state) == [kind |-> "FollowsFrom", state |-> state]

\* SpanContext::new
SpanContextNew(state, baggage_items) ==
    [state |-> state, baggage_items |-> baggage_items]

\* mutant of Normalize: the references are reversed like the tags, and left so
NormalizeReversesReferences(b) ==
    [b EXCEPT !.tags = NormalizeVec(b.tags),
              !.baggage_items = NormalizeVec(b.baggage_items),
              !.references = Reverse(b.references)]

\* StartSpanOptions::normalize
Normalize(b) ==
    [b EXCEPT !.tags = NormalizeVec(b.tags),
              !.baggage_items = NormalizeVec(b.baggage_items)]

\* StartSpanOptions::span: the CandidateSpan view of the builder
CandidateSpan(b) ==
    [references |-> b.references, tags |-> b.tags, baggage_items |-> b.baggage_items]

\* mutant of IsSampled: a priority of 0 counts as sampled
IsSampledFromZero(b, answer) ==
    LET found == FindByName(b.tags, SamplingPriority)
    IN IF IsSome(found) /\ Unwrap(found).value.kind = "Integer"
       THEN [sampled |-> Unwrap(found).value.i >= 0, asked |-> << >>, handed |-> None]
       ELSE [sampled |-> answer, asked |-> <<answer>>, handed |-> Some(CandidateSpan(b))]

\* mutant of IsSampled: the sampler is asked before the tag is looked at
IsSampledAsksFirst(b, answer) ==
    LET found == FindByName(b.tags, SamplingPriority)
    IN IF IsSome(found) /\ Unwrap(found).value.kind = "Integer"
       THEN [sampled |-> Unwrap(found).value.i > 0, asked |-> <<answer>>,
             handed |-> Some(CandidateSpan(b))]
       ELSE [sampled |-> answer, asked |-> <<answer>>, handed |-> Some(CandidateSpan(b))]

\* StartSpanOptions::is_sampled; answer is what the pluggable sampler returns
\* when it is asked.  asked lists the answers the sampler gave during the
\* call, handed is the CandidateSpan it was given.
IsSampled(b, answer) ==
    LET found == FindByName(b.tags, SamplingPriority)
    IN IF IsSome(found) /\ Unwrap(found).value.kind = "Integer"
       THEN [sampled |-> Unwrap(found).value.i > 0, asked |-> << >>, handed |-> None]
       ELSE [sampled |-> answer, asked |-> <<answer>>, handed |-> Some(CandidateSpan(b))]

\* mutant of Gate: the decision is taken on the builder as configured, and
\* the builder normalized after it
GateBeforeNormalize(b, answer) ==
    [options |-> Normalize(b), decision |-> IsSampled(b, answer)]

\* the first two statements of start and of start_with_context:
\* self.normalize(), then self.is_sampled()
Gate(b, answer) ==
    LET n == Normalize(b)
    IN [options |-> n, decision |-> IsSampled(n, answer)]

\* Span::new
SpanNew(operation_name, start_time, references, tags, state, baggage_items) ==
    Some([operation_name |-> operation_name,
          start_time |-> start_time,
          finish_time |-> None,
          references |-> references,
          tags |-> tags,
          logs |-> << >>,
          context |-> SpanContextNew(state, baggage_items)])

\* Option::unwrap_or_else(SystemTime::now)
UnwrapOrNow(o, clock) == IF IsSome(o) THEN Unwrap(o) ELSE clock

\* the body shared by start and start_with_context once the state is known:
\* normalize, the sampling gate, Span::new or Span(None)
StartedSpan(b, answer, state, clock) ==
    LET n == Gate(b, answer).options
    IN IF ~Gate(b, answer).decision.sampled
       THEN None
       ELSE SpanNew(n.operation_name, UnwrapOrNow(n.start_time, clock),
                    n.references, n.tags, state, n.baggage_items)

(***************************************************************************)
(* The Span handle.  sp is the Option<SpanInner> inside Span(..).          *)
(***************************************************************************)
\* Span::is_sampled
SpanIsSampled(sp) == IsSome(sp)

\* Span::context
Context(sp) == IF IsSome(sp) THEN Some(Unwrap(sp).context) ELSE None

\* Span::get_baggage_item
GetBaggageItem(sp, name) ==
    IF IsSome(sp) THEN FindByName(Unwrap(sp).context.baggage_items, name) ELSE None

\* Span::set_operation_name
SpanSetOperationName(sp, name) ==
    IF IsSome(sp) THEN Some([Unwrap(sp) EXCEPT !.operation_name = name]) ELSE sp

\* Span::set_finish_time
SpanSetFinishTime(sp, time) ==
    IF IsSome(sp) THEN Some([Unwrap(sp) EXCEPT !.finish_time = Some(time)]) ELSE sp

\* mutant of SpanSetTag: the tag is pushed without removing the old one
SpanSetTagPushOnly(sp, tag) ==
    IF IsSome(sp) THEN Some([Unwrap(sp) EXCEPT !.tags = Append(@, tag)]) ELSE sp

\* mutant of SpanSetTag: a sampling.priority of 0 or less disables the span
SpanSetTagHonoursPriority(sp, tag) ==
    IF IsSome(sp)
    THEN IF tag.name = SamplingPriority /\ tag.value.kind = "Integer" /\ tag.value.i <= 0
         THEN None
         ELSE Some([Unwrap(sp) EXCEPT !.tags = Append(RetainOthers(@, tag.name), tag)])
    ELSE sp

\* Span::set_tag
SpanSetTag(sp, tag) ==
    IF IsSome(sp)
    THEN Some([Unwrap(sp) EXCEPT !.tags = Append(RetainOthers(@, tag.name), tag)])
    ELSE sp

\* mutant of SpanSetBaggageItem: the item is pushed without removing the old one
SpanSetBaggageItemPushOnly(sp, item) ==
    IF IsSome(sp)
    THEN Some([Unwrap(sp) EXCEPT !.context.baggage_items = Append(@, item)])
    ELSE sp

\* Span::set_baggage_item
SpanSetBaggageItem(sp, item) ==
    IF IsSome(sp)
    THEN Some([Unwrap(sp) EXCEPT
                 !.context.baggage_items = Append(RetainOthers(@, item.name), item)])
    ELSE sp

\* LogBuilder::finish, as Span::log uses it: the record built from the fields
LogBuilderFinish(fields, clock) == Some([fields |-> fields, time |-> clock])

\* mutant of SpanLog: the record is put before the earlier ones
SpanLogPrepends(sp, fields, clock) ==
    IF IsSome(sp)
    THEN LET log == LogBuilderFinish(fields, clock)
         IN IF IsSome(log)
            THEN Some([Unwrap(sp) EXCEPT !.logs = <<Unwrap(log)>> \o @])
            ELSE sp
    ELSE sp

\* Span::log
SpanLog(sp, fields, clock) ==
    IF IsSome(sp)
    THEN LET log == LogBuilderFinish(fields, clock)
         IN IF IsSome(log)
            THEN Some([Unwrap(sp) EXCEPT !.logs = Append(@, Unwrap(log))])
            ELSE sp
    ELSE sp

\* mutant of FinishedSpan: a finish time not set defaults to the start time
FinishedSpanAtStart(inner, clock) ==
    [operation_name |-> inner.operation_name,
     start_time |-> inner.start_time,
     finish_time |-> UnwrapOrNow(inner.finish_time, inner.start_time),
     references |-> inner.references,
     tags |-> inner.tags,
     logs |-> inner.logs,
     context |-> inner.context]

\* the FinishedSpan built in Drop
FinishedSpan(inner, clock) ==
    [operation_name |-> inner.operation_name,
     start_time |-> inner.start_time,
     finish_time |-> UnwrapOrNow(inner.finish_time, clock),
     references |-> inner.references,
     tags |-> inner.tags,
     logs |-> inner.logs,
     context |-> inner.context]

\* mutant of Send: a value sent while another is waiting is thrown away
SendLossy(q, alive, msg) ==
    IF alive /\ q = << >> THEN [queue |-> Append(q, msg), result |-> "Ok"]
    ELSE [queue |-> q, result |-> IF alive THEN "Ok" ELSE "Err"]

\* mpsc::Sender::send: Ok and the value queued while the receiver exists,
\* Err and nothing queued once it is gone
Send(q, alive, msg) ==
    IF alive THEN [queue |-> Append(q, msg), result |-> "Ok"]
    ELSE [queue |-> q, result |-> "Err"]

\* mutant of DropFails: the result of send is unwrapped
DropFailsOnErr(result) == result = "Err"

\* `let _ = inner.span_tx.send(finished)`: whether drop fails on the result of send
DropFails(result) == FALSE

\* mutant of SpanDrop: the FinishedSpan is sent a second time
SpanDropSendsTwice(s, sp, q, alive, clock) ==
    IF IsSome(sp)
    THEN LET finished == FinishedSpan(Unwrap(sp), clock)
             sent == Send(q, alive, [from |-> s, span |-> finished])
             again == Send(sent.queue, alive, [from |-> s, span |-> finished])
         IN [queue |-> again.queue, result |-> again.result, failed |-> FALSE]
    ELSE [queue |-> q, result |-> "", failed |-> FALSE]

\* mutant of SpanDrop: a disabled span sends a FinishedSpan without content
SpanDropSendsDisabled(s, sp, q, alive, clock) ==
    LET inner == IF IsSome(sp) THEN Unwrap(sp)
                 ELSE Unwrap(SpanNew("", clock, << >>, << >>, "", << >>))
        sent == Send(q, alive, [from |-> s, span |-> FinishedSpan(inner, clock)])
    IN [queue |-> sent.queue, result |-> sent.result, failed |-> FALSE]

\* Drop for Span, for the span held in slot s: the channel afterwards and
\* whether the drop failed.  from tells which span a queued value came from.
SpanDrop(s, sp, q, alive, clock) ==
    IF IsSome(sp)
    THEN LET finished == FinishedSpan(Unwrap(sp), clock)
             sent == Send(q, alive, [from |-> s, span |-> finished])
         IN [queue |-> sent.queue, result |-> sent.result,
             failed |-> DropFails(sent.result)]
    ELSE [queue |-> q, result |-> "", failed |-> FALSE]

(***************************************************************************)
(* State.  Index 0 of lastTag and lastBaggage follows the builder being    *)
(* configured, index s the span in slot s.                                 *)
(***************************************************************************)
NoWrites(names) == [n \in names |-> None]

\* the writes of the items of v, in order, recorded in the map m
RECURSIVE Written(_, _)
Written(m, v) ==
    IF v = << >> THEN m
    ELSE Written([m EXCEPT ![Head(v).name] = Some(Head(v).value)], Tail(v))

FreeSpan ==
    [status |-> "free", span |-> None, sampled |-> FALSE, via |-> "", rxAtStart |-> TRUE,
     sent |-> "", startedAt |-> None, finishSet |-> None, droppedAt |-> None,
     finishing |-> None, logged |-> << >>, handed |-> None]

Init ==
    /\ builder = None
    /\ spans = [s \in Slots |-> FreeSpan]
    /\ queue = << >>
    /\ received = << >>
    /\ rxAlive = TRUE
    /\ now = 0
    /\ samplerLog = [s \in Slots |-> << >>]
    /\ gateTags = [s \in Slots |-> << >>]
    /\ lastTag = [s \in {0} \cup Slots |-> NoWrites(TagNames)]
    /\ lastBaggage = [s \in {0} \cup Slots |-> NoWrites(BaggageNames)]
    /\ refCalls = [s \in {0} \cup Slots |-> << >>]
    /\ panicked = FALSE

\* a panic unwinds the program: nothing is called after it
Running == ~panicked
Held(s) == spans[s].status = "held"
FreeSlots(lim) == {s \in Slots : s <= lim /\ spans[s].status = "free"}
\* the slot the next started span is put in
NextSlot(lim) == CHOOSE s \in FreeSlots(lim) : \A t \in FreeSlots(lim) : s <= t

\* MaybeAsRef<SpanContext<T>> for Span<T>: the span held in slot s as an argument
SpanAsRef(s) == Context(spans[s].span)
\* MaybeAsRef<SpanContext<T>> for SpanContext<T>
ContextAsRef(context) == Some(context)

(***************************************************************************)
(* Operations on the builder.                                              *)
(***************************************************************************)
\* Tracer::span(operation_name): a new builder
TracerSpan(lim, operation_name) ==
    /\ Running
    /\ builder = None
    /\ FreeSlots(lim) # {}
    /\ builder' = Some(StartSpanOptionsNew(operation_name))
    /\ refCalls' = [refCalls EXCEPT ![0] = << >>]
    /\ UNCHANGED <<spans, queue, received, rxAlive, now, samplerLog, gateTags,
                   lastTag, lastBaggage, panicked>>

\* StartSpanOptions::start_time
BuilderStartTime(time) ==
    /\ Running
    /\ IsSome(builder)
    /\ Unwrap(builder).start_time # Some(time)
    /\ builder' = Some([Unwrap(builder) EXCEPT !.start_time = Some(time)])
    /\ UNCHANGED <<spans, queue, received, rxAlive, now, samplerLog, gateTags,
                   lastTag, lastBaggage, panicked,
                   refCalls>>

\* StartSpanOptions::tag
BuilderTag(tag) ==
    /\ Running
    /\ IsSome(builder)
    /\ Len(Unwrap(builder).tags) < MaxTags
    /\ builder' = Some([Unwrap(builder) EXCEPT !.tags = Append(@, tag)])
    /\ lastTag' = [lastTag EXCEPT ![0] = Written(@, <<tag>>)]
    /\ UNCHANGED <<spans, queue, received, rxAlive, now, samplerLog, gateTags,
                   lastBaggage, panicked,
                   refCalls>>

\* mutant of WithReference: the baggage of the context replaces the pending baggage
WithReferenceLastOnly(b, context, reference) ==
    IF IsSome(context)
    THEN [b EXCEPT !.references = Append(@, reference),
                   !.baggage_items = Unwrap(context).baggage_items]
    ELSE b

\* the body shared by child_of and follows_from: the reference and the
\* context's baggage are added when the argument carries a context
WithReference(b, context, reference) ==
    IF IsSome(context)
    THEN [b EXCEPT !.references = Append(@, reference),
                   !.baggage_items = @ \o Unwrap(context).baggage_items]
    ELSE b

\* StartSpanOptions::child_of; context is maybe_as_ref() of the argument
BuilderChildOf(context) ==
    /\ Running
    /\ IsSome(builder)
    /\ Len(refCalls[0]) < MaxRefs
    /\ LET b == Unwrap(builder)
       IN /\ builder' = Some(WithReference(b, context,
                                 IF IsSome(context) THEN ChildOf(Unwrap(context).state)
                                 ELSE None))
          /\ lastBaggage' = [lastBaggage EXCEPT ![0] =
                 IF IsSome(context) THEN Written(@, Unwrap(context).baggage_items)
                 ELSE @]
    /\ refCalls' = [refCalls EXCEPT ![0] =
                       Append(@, [kind |-> "child_of", context |-> context])]
    /\ UNCHANGED <<spans, queue, received, rxAlive, now, samplerLog, gateTags,
                   lastTag, panicked>>

\* StartSpanOptions::follows_from; context is maybe_as_ref() of the argument
BuilderFollowsFrom(context) ==
    /\ Running
    /\ IsSome(builder)
    /\ Len(refCalls[0]) < MaxRefs
    /\ LET b == Unwrap(builder)
       IN /\ builder' = Some(WithReference(b, context,
                                 IF IsSome(context) THEN FollowsFrom(Unwrap(context).state)
                                 ELSE None))
          /\ lastBaggage' = [lastBaggage EXCEPT ![0] =
                 IF IsSome(context) THEN Written(@, Unwrap(context).baggage_items)
                 ELSE @]
    /\ refCalls' = [refCalls EXCEPT ![0] =
                       Append(@, [kind |-> "follows_from", context |-> context])]
    /\ UNCHANGED <<spans, queue, received, rxAlive, now, samplerLog, gateTags,
                   lastTag, panicked>>

\* child_of / follows_from with the span held in slot s as the argument
BuilderChildOfSpan(s) ==
    /\ Held(s)
    /\ BuilderChildOf(SpanAsRef(s))

BuilderFollowsFromSpan(s) ==
    /\ Held(s)
    /\ BuilderFollowsFrom(SpanAsRef(s))

\* what start and start_with_context leave behind: the span in the next
\* slot, the builder consumed
Finalize(lim, answer, state, via) ==
    LET b == Unwrap(builder)
        s == NextSlot(lim)
        started == StartedSpan(b, answer, state, now)
    IN /\ spans' = [spans EXCEPT ![s] =
                       [status |-> "held", span |-> started,
                        sampled |-> SpanIsSampled(started), via |-> via,
                        rxAtStart |-> rxAlive, sent |-> "",
                        startedAt |-> Some(now), finishSet |-> None,
                        droppedAt |-> None, finishing |-> None, logged |-> << >>,
                        handed |-> Gate(b, answer).decision.handed]]
       /\ builder' = None
       /\ samplerLog' = [samplerLog EXCEPT ![s] = Gate(b, answer).decision.asked]
       /\ gateTags' = [gateTags EXCEPT ![s] = Normalize(b).tags]
       /\ lastTag' = [lastTag EXCEPT ![s] = lastTag[0], ![0] = NoWrites(TagNames)]
       /\ lastBaggage' = [lastBaggage EXCEPT ![s] = lastBaggage[0],
                                             ![0] = NoWrites(BaggageNames)]
       /\ refCalls' = [refCalls EXCEPT ![s] = refCalls[0], ![0] = << >>]
       /\ UNCHANGED <<queue, received, rxAlive, now, panicked>>

\* StartSpanOptions::start; state is the T made from the candidate span,
\* answer what the sampler returns if it is asked
Start(lim, answer, state) ==
    /\ Running
    /\ IsSome(builder)
    /\ FreeSlots(lim) # {}
    /\ Finalize(lim, answer, state, "start")

\* StartSpanOptions::start_with_context
StartWithContext(lim, answer, context) ==
    /\ Running
    /\ IsSome(builder)
    /\ FreeSlots(lim) # {}
    /\ Finalize(lim, answer, context, "start_with_context")

\* mutant of AbandonBuilder: the abandoned builder reports a span
AbandonBuilderSends ==
    /\ Running
    /\ IsSome(builder)
    /\ builder' = None
    /\ queue' = Send(queue, rxAlive,
                     [from |-> 0,
                      span |-> FinishedSpan(Unwrap(SpanNew(Unwrap(builder).operation_name,
                                  now, Unwrap(builder).references, Unwrap(builder).tags,
                                  "t1", Unwrap(builder).baggage_items)), now)]).queue
    /\ lastTag' = [lastTag EXCEPT ![0] = NoWrites(TagNames)]
    /\ lastBaggage' = [lastBaggage EXCEPT ![0] = NoWrites(BaggageNames)]
    /\ UNCHANGED <<spans, received, rxAlive, now, samplerLog, gateTags, panicked,
                   refCalls>>

\* a builder dropped without start / start_with_context
AbandonBuilder ==
    /\ Running
    /\ IsSome(builder)
    /\ builder' = None
    /\ lastTag' = [lastTag EXCEPT ![0] = NoWrites(TagNames)]
    /\ lastBaggage' = [lastBaggage EXCEPT ![0] = NoWrites(BaggageNames)]
    /\ UNCHANGED <<spans, queue, received, rxAlive, now, samplerLog, gateTags, panicked,
                   refCalls>>

(***************************************************************************)
(* Operations on a span held in slot s.                                    *)
(***************************************************************************)
SetOperationName(s, name) ==
    /\ Running
    /\ Held(s)
    /\ spans' = [spans EXCEPT ![s].span = SpanSetOperationName(@, name)]
    /\ UNCHANGED <<builder, queue, received, rxAlive, now, samplerLog, gateTags,
                   lastTag, lastBaggage, panicked,
                   refCalls>>

SetFinishTime(s, time) ==
    /\ Running
    /\ Held(s)
    /\ spans' = [spans EXCEPT ![s].span = SpanSetFinishTime(@, time),
                              ![s].finishSet = IF spans[s].sampled THEN Some(time) ELSE @]
    /\ UNCHANGED <<builder, queue, received, rxAlive, now, samplerLog, gateTags,
                   lastTag, lastBaggage, panicked,
                   refCalls>>

SetTag(s, tag) ==
    /\ Running
    /\ Held(s)
    /\ spans' = [spans EXCEPT ![s].span = SpanSetTag(@, tag)]
    /\ lastTag' = [lastTag EXCEPT ![s] = Written(@, <<tag>>)]
    /\ UNCHANGED <<builder, queue, received, rxAlive, now, samplerLog, gateTags,
                   lastBaggage, panicked,
                   refCalls>>

SetBaggageItem(s, item) ==
    /\ Running
    /\ Held(s)
    /\ spans' = [spans EXCEPT ![s].span = SpanSetBaggageItem(@, item)]
    /\ lastBaggage' = [lastBaggage EXCEPT ![s] = Written(@, <<item>>)]
    /\ UNCHANGED <<builder, queue, received, rxAlive, now, samplerLog, gateTags,
                   lastTag, panicked,
                   refCalls>>

Log(s, fields) ==
    /\ Running
    /\ Held(s)
    /\ IsSome(spans[s].span) => Len(Unwrap(spans[s].span).logs) < MaxLogs
    /\ spans' = [spans EXCEPT ![s].span = SpanLog(@, fields, now),
                              ![s].logged = IF spans[s].sampled
                                            THEN Append(@, [fields |-> fields, time |-> now])
                                            ELSE @]
    /\ UNCHANGED <<builder, queue, received, rxAlive, now, samplerLog, gateTags,
                   lastTag, lastBaggage, panicked,
                   refCalls>>

\* Drop for Span: the owner of the span in slot s lets go of it
Drop(s) ==
    /\ Running
    /\ Held(s)
    /\ LET out == SpanDrop(s, spans[s].span, queue, rxAlive, now)
       IN /\ queue' = out.queue
          /\ panicked' = (panicked \/ out.failed)
    /\ spans' = [spans EXCEPT ![s].status = "dropped", ![s].span = None,
                              ![s].sent = SpanDrop(s, spans[s].span, queue, rxAlive, now).result,
                              ![s].droppedAt = Some(now)]
    /\ UNCHANGED <<builder, received, rxAlive, now, samplerLog, gateTags,
                   lastTag, lastBaggage,
                   refCalls>>

\* Drop for Span run by a thread of its own, in two steps that other
\* threads' steps may come between.  First step: take the inner state and
\* build the FinishedSpan; a disabled span is done after it
DropTake(s) ==
    /\ Running
    /\ Held(s)
    /\ spans' = [spans EXCEPT
                    ![s].status = IF IsSome(spans[s].span) THEN "dropping" ELSE "dropped",
                    ![s].span = None,
                    ![s].finishing = IF IsSome(spans[s].span)
                                     THEN Some(FinishedSpan(Unwrap(spans[s].span), now))
                                     ELSE None,
                    ![s].droppedAt = Some(now)]
    /\ UNCHANGED <<builder, queue, received, rxAlive, now, samplerLog, gateTags,
                   lastTag, lastBaggage, refCalls, panicked>>

\* second step: send the FinishedSpan on the channel, whatever the result
DropSend(s) ==
    /\ Running
    /\ spans[s].status = "dropping"
    /\ LET sent == Send(queue, rxAlive, [from |-> s, span |-> Unwrap(spans[s].finishing)])
       IN /\ queue' = sent.queue
          /\ panicked' = (panicked \/ DropFails(sent.result))
          /\ spans' = [spans EXCEPT ![s].status = "dropped", ![s].finishing = None,
                                    ![s].sent = sent.result]
    /\ UNCHANGED <<builder, received, rxAlive, now, samplerLog, gateTags,
                   lastTag, lastBaggage, refCalls>>

(***************************************************************************)
(* The receiving end and the clock.                                        *)
(***************************************************************************)
\* SpanReceiver::try_recv taking a value
Recv ==
    /\ rxAlive
    /\ queue # << >>
    /\ received' = Append(received, Head(queue))
    /\ queue' = Tail(queue)
    /\ UNCHANGED <<builder, spans, rxAlive, now, samplerLog, gateTags,
                   lastTag, lastBaggage, panicked,
                   refCalls>>

\* the SpanReceiver is dropped; what was queued goes with it
DropReceiver ==
    /\ rxAlive
    /\ rxAlive' = FALSE
    /\ queue' = << >>
    /\ UNCHANGED <<builder, spans, received, now, samplerLog, gateTags,
                   lastTag, lastBaggage, panicked,
                   refCalls>>

Tick ==
    /\ now < MaxTime
    /\ now' = now + 1
    /\ UNCHANGED <<builder, spans, queue, received, rxAlive, samplerLog, gateTags,
                   lastTag, lastBaggage, panicked,
                   refCalls>>

(***************************************************************************)
(* Spec: client programs that start a span from a plain builder, call      *)
(* every operation of the Span handle on it in any order and drop it,      *)
(* while the receiver takes values or goes away.                           *)
(***************************************************************************)
Next ==
    \/ TracerSpan(MaxSpansDeep, "fetch")
    \/ BuilderTag(Tag("a", String("v1")))
    \/ \E answer \in BOOLEAN : Start(MaxSpansDeep, answer, "t1")
    \/ \E answer \in BOOLEAN : StartWithContext(MaxSpansDeep, answer, "t2")
    \/ \E s \in Slots : SetOperationName(s, "store")
    \/ \E s \in Slots : SetFinishTime(s, MaxTime)
    \/ \E s \in Slots : SetTag(s, Tag("a", String("v2")))
    \/ \E s \in Slots : SetBaggageItem(s, BaggageItem("user", "7"))
    \/ \E s \in Slots : Log(s, {"event"})
    \/ \E s \in Slots : Drop(s)
    \/ Recv
    \/ DropReceiver

Spec == Init /\ [][Next]_vars

(***************************************************************************)
(* Delivery.                                                               *)
(***************************************************************************)
\* the FinishedSpan values of the sequence q that came from the span in slot s
RECURSIVE From(_, _)
From(q, s) ==
    IF q = << >> THEN << >>
    ELSE IF Head(q).from = s THEN <<Head(q).span>> \o From(Tail(q), s)
         ELSE From(Tail(q), s)

\* everything delivered so far by the span in slot s that still exists
Delivered(s) == From(received \o queue, s)

\* C1: dropping an active span while the receiver is alive puts exactly one
\* FinishedSpan of that span on the channel: the channel grows by one value,
\* that value is the span's, and no span ever has two values delivered.
C1_DropDeliversExactlyOnce ==
    /\ [](\A s \in Slots : Len(Delivered(s)) <= 1)
    /\ [][\A s \in Slots :
            (Held(s) /\ SpanIsSampled(spans[s].span) /\ rxAlive
               /\ spans'[s].status = "dropped")
            => /\ Delivered(s) = << >>
               /\ Len(queue') = Len(queue) + 1
               /\ queue'[Len(queue')].from = s
               /\ SubSeq(queue', 1, Len(queue)) = queue
               /\ Len(From(received' \o queue', s)) = 1]_vars

\* an active span that went through set_operation_name, set_finish_time,
\* set_tag, set_baggage_item and log was dropped and its FinishedSpan was received
C1_Witness ==
    \E i \in 1 .. Len(received) :
        LET f == received[i].span
        IN /\ f.operation_name = "store"
           /\ f.finish_time = MaxTime
           /\ Len(f.tags) = 1 /\ f.tags[1].value = String("v2")
           /\ f.context.baggage_items # << >>
           /\ f.logs # << >>
           /\ spans[received[i].from].status = "dropped"

\* C2: a span that was disabled when it was started stays Span(None) through
\* every operation and its drop, nothing of it is ever on the channel, and
\* context() and get_baggage_item() return None.
C2_DisabledSpanIsInert ==
    \A s \in Slots :
        (spans[s].status # "free" /\ ~spans[s].sampled)
        => /\ spans[s].span = None
           /\ Delivered(s) = << >>
           /\ From(queue, s) = << >>
           /\ Context(spans[s].span) = None
           /\ \A n \in BaggageNames : GetBaggageItem(spans[s].span, n) = None
           /\ ~panicked

\* a disabled span has been dropped after set_tag, set_baggage_item and the
\* other operations were called on it
C2_Witness ==
    \E s \in Slots :
        /\ spans[s].status = "dropped"
        /\ ~spans[s].sampled
        /\ lastTag[s]["a"] = Some(String("v2"))
        /\ lastBaggage[s]["user"] = Some("7")

(***************************************************************************)
(* SpecTags: client programs that give a builder several tags, start the   *)
(* span, set further tags on it and drop it.                               *)
(***************************************************************************)
TagInputs ==
    {Tag("a", String("v1")), Tag("b", String("v2")), Tag("a", String("v3")),
     Tag(SamplingPriority, Integer(5))}

NextTags ==
    \/ TracerSpan(MaxSpansDeep, "fetch")
    \/ \E t \in TagInputs : BuilderTag(t)
    \/ \E answer \in BOOLEAN : Start(MaxSpansDeep, answer, "t1")
    \/ \E s \in Slots, t \in TagInputs : SetTag(s, t)
    \/ \E s \in Slots : Drop(s)
    \/ Recv

SpecTags == Init /\ [][NextTags]_vars

\* no two elements of v have the same name
UniqueNames(v) == \A i, j \in 1 .. Len(v) : v[i].name = v[j].name => i = j

\* v is sorted by name, strictly ascending
StrictlySorted(v) ==
    \A i \in 1 .. Len(v) - 1 : NameRank[v[i].name] < NameRank[v[i + 1].name]

\* v holds, for every name, exactly the value last written for it
HoldsLastWrites(v, last) ==
    /\ UniqueNames(v)
    /\ \A i \in 1 .. Len(v) : last[v[i].name] = Some(v[i].value)
    /\ \A n \in DOMAIN last : IsSome(last[n]) => \E i \in 1 .. Len(v) : v[i].name = n

\* C3: the tags of an active span, and of the FinishedSpan it delivers, hold
\* one tag per name, with the value of the last set_tag for that name or,
\* without one, of the builder's last tag() for it.
C3_SetTagLastWins ==
    \A s \in Slots :
        /\ (Held(s) /\ SpanIsSampled(spans[s].span))
           => HoldsLastWrites(Unwrap(spans[s].span).tags, lastTag[s])
        /\ \A i \in 1 .. Len(Delivered(s)) :
              HoldsLastWrites(Delivered(s)[i].tags, lastTag[s])

\* set_tag with names a, b, a and values v1, v2, v3 left b = v2, a = v3 in the
\* FinishedSpan
C3_Witness ==
    \E s \in Slots :
        /\ Delivered(s) # << >>
        /\ Delivered(s)[1].tags = <<Tag("b", String("v2")), Tag("a", String("v3"))>>

\* C6: what normalize makes of the tags given to a builder is sorted by name,
\* has one tag per name, and keeps for each name the value of the last tag()
\* call with that name.
C6_BuilderTagLastWins ==
    /\ IsSome(builder)
       => LET tags == Normalize(Unwrap(builder)).tags
          IN StrictlySorted(tags) /\ HoldsLastWrites(tags, lastTag[0])
    /\ \A s \in Slots : spans[s].status # "free"
          => StrictlySorted(gateTags[s]) /\ UniqueNames(gateTags[s])

\* a builder was given b, then a twice with different values
C6_Witness ==
    /\ IsSome(builder)
    /\ Unwrap(builder).tags =
          <<Tag("b", String("v2")), Tag("a", String("v1")), Tag("a", String("v3"))>>
    /\ Normalize(Unwrap(builder)).tags = <<Tag("a", String("v3")), Tag("b", String("v2"))>>

(***************************************************************************)
(* SpecSampling: client programs that give a builder sampling.priority     *)
(* tags of several values, finalize it on either path or abandon it, and   *)
(* use the span.                                                           *)
(***************************************************************************)
PriorityInputs ==
    {Tag(SamplingPriority, Integer(-1)), Tag(SamplingPriority, Integer(0)),
     Tag(SamplingPriority, Integer(5)), Tag(SamplingPriority, String("high")),
     Tag("a", String("v1"))}

NextSampling ==
    \/ TracerSpan(MaxSpansDeep, "fetch")
    \/ \E t \in PriorityInputs : BuilderTag(t)
    \/ \E answer \in BOOLEAN : Start(MaxSpansDeep, answer, "t1")
    \/ \E answer \in BOOLEAN : StartWithContext(MaxSpansDeep, answer, "t2")
    \/ AbandonBuilder
    \/ \E s \in Slots : SetTag(s, Tag(SamplingPriority, Integer(0)))
    \/ \E s \in Slots : Log(s, {"event"})
    \/ \E s \in Slots : Drop(s)

SpecSampling == Init /\ [][NextSampling]_vars

\* the Integer values of the tags named sampling.priority in tags
IntegerPriorities(tags) ==
    {tags[i].value.i : i \in {j \in 1 .. Len(tags) :
        tags[j].name = SamplingPriority /\ tags[j].value.kind = "Integer"}}

\* C8: on both paths a span whose finalized tags hold an Integer
\* sampling.priority n is active iff n > 0, whatever the sampler would say;
\* without such a tag it is active iff the sampler answered true.
C8_PriorityOverridesSampler ==
    \A s \in Slots : spans[s].status # "free"
        => IF IntegerPriorities(gateTags[s]) # {}
           THEN \A n \in IntegerPriorities(gateTags[s]) : spans[s].sampled <=> n > 0
           ELSE samplerLog[s] = <<spans[s].sampled>>

\* start_with_context gave a disabled span for a finalized priority of 0
C8_Witness ==
    \E s \in Slots :
        /\ spans[s].via = "start_with_context"
        /\ IntegerPriorities(gateTags[s]) = {0}
        /\ ~spans[s].sampled
        /\ spans[s].status = "held"

\* C9: one finalization asks the sampler not at all when an Integer
\* sampling.priority is among the finalized tags and at most once otherwise;
\* only a finalization asks it: no builder call before it, no abandoned
\* builder, no operation on a span.
C9_SamplerAskedAtMostOnce ==
    /\ [](\A s \in Slots :
            /\ Len(samplerLog[s]) <= 1
            /\ IntegerPriorities(gateTags[s]) # {} => samplerLog[s] = << >>
            /\ spans[s].status = "free" => samplerLog[s] = << >>)
    /\ [][\A s \in Slots :
            samplerLog'[s] # samplerLog[s]
            => /\ IsSome(builder) /\ builder' = None
               /\ spans[s].status = "free" /\ spans'[s].status = "held"]_vars

\* one span was finalized without the sampler (priority 5), after that
\* set_tag and drop were called on it
C9_Witness ==
    \E s \in Slots :
        /\ spans[s].status = "dropped"
        /\ IntegerPriorities(gateTags[s]) = {5}
        /\ samplerLog[s] = << >>
        /\ lastTag[s][SamplingPriority] = Some(Integer(0))
        /\ spans[s].sent = "Ok"

(***************************************************************************)
(* SpecBaggage: client programs that refer a builder to contexts carrying  *)
(* baggage, start the span, set baggage items on it and drop it.           *)
(***************************************************************************)
\* contexts of other spans, as a program holds them (extracted or cloned)
ContextInputs ==
    {SpanContextNew("x1", <<BaggageItem("user", "42")>>),
     SpanContextNew("x2", <<BaggageItem("user", "7"), BaggageItem("k", "1")>>)}

\* the context the programs refer to with follows_from
FollowedContext == SpanContextNew("x1", <<BaggageItem("user", "42")>>)

BaggageInputs == {BaggageItem("user", "7"), BaggageItem("k", "2")}

NextBaggage ==
    \/ TracerSpan(MaxSpansDeep, "fetch")
    \/ \E c \in ContextInputs : BuilderChildOf(ContextAsRef(c))
    \/ BuilderFollowsFrom(ContextAsRef(FollowedContext))
    \/ \E answer \in BOOLEAN : Start(MaxSpansDeep, answer, "t1")
    \/ StartWithContext(MaxSpansDeep, TRUE, "t2")
    \/ \E s \in Slots, item \in BaggageInputs : SetBaggageItem(s, item)
    \/ \E s \in Slots : Drop(s)

SpecBaggage == Init /\ [][NextBaggage]_vars

\* what get_baggage_item is to return for name when last holds the last writes
LastItem(last, name) ==
    IF IsSome(last[name]) THEN Some(BaggageItem(name, Unwrap(last[name]))) ELSE None

\* C4: the baggage of an active span never has two items of one name, and
\* get_baggage_item returns for every name the item last set (or inherited)
\* for it, and None for a name never set or inherited.
C4_SetBaggageItemLastWins ==
    \A s \in Slots : (Held(s) /\ SpanIsSampled(spans[s].span))
        => /\ UniqueNames(Unwrap(spans[s].span).context.baggage_items)
           /\ \A n \in BaggageNames :
                 GetBaggageItem(spans[s].span, n) = LastItem(lastBaggage[s], n)

\* user was inherited and then set on the span, k was never set nor inherited
C4_Witness ==
    \E s \in Slots :
        /\ Held(s)
        /\ spans[s].sampled
        /\ Len(Unwrap(spans[s].span).references) = 1
        /\ GetBaggageItem(spans[s].span, "user") = Some(BaggageItem("user", "7"))
        /\ GetBaggageItem(spans[s].span, "k") = None

\* the baggage of a context
Baggage(sp) == Unwrap(sp).context.baggage_items

\* C5 as stated: the baggage of every active span and of every FinishedSpan
\* is sorted ascending by name, without duplicates.
C5_BaggageAlwaysSorted ==
    \A s \in Slots :
        /\ (Held(s) /\ SpanIsSampled(spans[s].span)) => StrictlySorted(Baggage(spans[s].span))
        /\ \A i \in 1 .. Len(Delivered(s)) :
              StrictlySorted(Delivered(s)[i].context.baggage_items)

\* C5 as the code has it: the baggage never holds two items of one name, in
\* the active span and in the FinishedSpan; it is sorted ascending by name
\* right after start / start_with_context; set_baggage_item puts the written
\* item last and keeps the order of the others.
C5_BaggageUniqueSortedAtStart ==
    /\ [](\A s \in Slots :
            /\ (Held(s) /\ SpanIsSampled(spans[s].span))
               => UniqueNames(Baggage(spans[s].span))
            /\ \A i \in 1 .. Len(Delivered(s)) :
                  UniqueNames(Delivered(s)[i].context.baggage_items))
    /\ [][\A s \in Slots :
            /\ (spans[s].status = "free" /\ SpanIsSampled(spans'[s].span))
               => StrictlySorted(Baggage(spans'[s].span))
            /\ (Held(s) /\ SpanIsSampled(spans[s].span) /\ SpanIsSampled(spans'[s].span)
                  /\ Baggage(spans'[s].span) # Baggage(spans[s].span))
               => LET new == Baggage(spans'[s].span)
                      item == new[Len(new)]
                  IN SubSeq(new, 1, Len(new) - 1)
                        = RetainOthers(Baggage(spans[s].span), item.name)]_vars

\* a span started with the baggage k, user set k again: user now comes first
C5_Witness ==
    \E s \in Slots :
        /\ Held(s)
        /\ spans[s].sampled
        /\ Len(Baggage(spans[s].span)) = 2
        /\ Baggage(spans[s].span)[1].name = "user"
        /\ Baggage(spans[s].span)[2] = BaggageItem("k", "2")

\* C7: the baggage of a started span has one item for every name carried by
\* a context the builder referred to by child_of / follows_from and no
\* other, and for a name several of them carry, the value of the one
\* referred to last.
C7_ReferencedBaggageMerged ==
    [][\A s \in Slots :
         (spans[s].status = "free" /\ SpanIsSampled(spans'[s].span))
         => HoldsLastWrites(Baggage(spans'[s].span), lastBaggage[0])]_vars

\* a span was started child-of x2 and follows-from x1: k comes from x2, user from x1
C7_Witness ==
    \E s \in Slots :
        /\ Held(s)
        /\ spans[s].sampled
        /\ Unwrap(spans[s].span).references = <<ChildOf("x2"), FollowsFrom("x1")>>
        /\ Baggage(spans[s].span) = <<BaggageItem("k", "1"), BaggageItem("user", "42")>>

(***************************************************************************)
(* SpecShutdown: client programs that hold several spans while the         *)
(* receiver takes values and, at some point, goes away.                    *)
(***************************************************************************)
NextShutdown ==
    \/ TracerSpan(MaxSpans, "fetch")
    \/ \E answer \in BOOLEAN : Start(MaxSpans, answer, "t1")
    \/ \E s \in Slots : SetTag(s, Tag("a", String("v2")))
    \/ \E s \in Slots : Drop(s)
    \/ Recv
    \/ DropReceiver

SpecShutdown == Init /\ [][NextShutdown]_vars

\* C10: with the receiver gone, the drop of a span fails nothing and
\* delivers nothing, and every operation of the tracer and of the spans
\* stays callable: builders can be made and started, spans tagged and dropped.
C10_DropAfterReceiverGone ==
    /\ [](~panicked)
    /\ [](~rxAlive
          => /\ queue = << >>
             /\ \A s \in Slots : Held(s)
                   => ENABLED Drop(s) /\ ENABLED SetTag(s, Tag("a", String("v2")))
             /\ (FreeSlots(MaxSpans) # {} /\ builder = None)
                   => ENABLED TracerSpan(MaxSpans, "fetch")
             /\ (FreeSlots(MaxSpans) # {} /\ IsSome(builder))
                   => ENABLED Start(MaxSpans, TRUE, "t1"))
    /\ [][\A s \in Slots :
            (Held(s) /\ ~rxAlive /\ spans'[s].status = "dropped")
            => /\ queue' = queue
               /\ received' = received
               /\ ~panicked'
               /\ spans'[s].sent = (IF spans[s].sampled THEN "Err" ELSE "")]_vars

\* after the receiver went away, an active span that was started before and
\* one that was started after it were both tagged and dropped
C10_Witness ==
    /\ ~rxAlive
    /\ \E s, t \in Slots :
          /\ spans[s].rxAtStart /\ ~spans[t].rxAtStart
          /\ \A u \in {s, t} :
                /\ spans[u].status = "dropped"
                /\ spans[u].sampled
                /\ spans[u].sent = "Err"
                /\ lastTag[u]["a"] = Some(String("v2"))


(***************************************************************************)
(* SpecRefs: client programs that hold several spans, active and disabled, *)
(* and configure builders with child_of / follows_from on those spans and  *)
(* on a context extracted from a carrier, then start them.                 *)
(***************************************************************************)
NextRefs ==
    \/ TracerSpan(MaxSpans, "fetch")
    \/ \E s \in Slots : BuilderChildOfSpan(s)
    \/ \E s \in Slots : BuilderFollowsFromSpan(s)
    \/ BuilderChildOf(ContextAsRef(FollowedContext))
    \/ \E answer \in BOOLEAN : Start(MaxSpans, answer, "t1")
    \/ \E s \in Slots : Drop(s)

SpecRefs == Init /\ [][NextRefs]_vars

\* the references a sequence of child_of / follows_from calls asks for: one
\* per call whose argument carried a context, of the call's kind, holding
\* that context's state, in call order
RECURSIVE RefsOf(_)
RefsOf(calls) ==
    IF calls = << >> THEN << >>
    ELSE LET c == Head(calls)
         IN (IF IsSome(c.context)
             THEN <<[kind |-> IF c.kind = "child_of" THEN "ChildOf" ELSE "FollowsFrom",
                     state |-> Unwrap(c.context).state]>>
             ELSE << >>) \o RefsOf(Tail(calls))

\* the baggage the contexts of a sequence of calls carried, in call order
RECURSIVE BaggageOf(_)
BaggageOf(calls) ==
    IF calls = << >> THEN << >>
    ELSE (IF IsSome(Head(calls).context) THEN Unwrap(Head(calls).context).baggage_items
          ELSE << >>) \o BaggageOf(Tail(calls))

\* C11: a child_of / follows_from whose argument carries no context (a
\* disabled span) leaves the builder's references and pending baggage as
\* they were; one whose argument carries a context adds exactly one
\* reference, of the call's kind, holding that context's state (and that
\* context's baggage to the pending baggage).
C11_ReferenceOnlyFromContext ==
    /\ IsSome(builder) =>
          /\ Unwrap(builder).references = RefsOf(refCalls[0])
          /\ Unwrap(builder).baggage_items = BaggageOf(refCalls[0])
    /\ \A i \in 1 .. Len(refCalls[0]) :
          refCalls[0][i].context = None =>
             /\ RefsOf(SubSeq(refCalls[0], 1, i)) = RefsOf(SubSeq(refCalls[0], 1, i - 1))
             /\ BaggageOf(SubSeq(refCalls[0], 1, i)) = BaggageOf(SubSeq(refCalls[0], 1, i - 1))

\* a builder that got child_of(extracted context with baggage) and then
\* follows_from(disabled span): one ChildOf reference, the context's baggage
C11_Witness ==
    /\ IsSome(builder)
    /\ Len(refCalls[0]) = 2
    /\ refCalls[0][1].kind = "child_of" /\ IsSome(refCalls[0][1].context)
    /\ refCalls[0][2].kind = "follows_from" /\ refCalls[0][2].context = None
    /\ Unwrap(builder).references = <<[kind |-> "ChildOf", state |-> "x1"]>>
    /\ Unwrap(builder).baggage_items = <<BaggageItem("user", "42")>>


\* the item named name that the last of the writes in v leaves
LastNamed(v, name) == FindByName(Reverse(v), name)

\* C12: a span started child-of (or follows-from) contexts has, per name,
\* the item inherited from them; set_baggage_item on the span replaces the
\* item of that name, inherited or not, and keeps every other item; the
\* FinishedSpan carries the baggage the span had when it was dropped.  So
\* child_of {user: 42}, set_baggage_item(user, 7), drop delivers {user: 7}.
C12_LocalBaggageOverridesInherited ==
    /\ [][\A s \in Slots :
            (spans[s].status = "free" /\ Held(s)' /\ SpanIsSampled(spans'[s].span))
            => \A n \in BaggageNames :
                  GetBaggageItem(spans'[s].span, n) = LastNamed(BaggageOf(refCalls[0]), n)]_vars
    /\ [][\A s \in Slots :
            (Held(s) /\ SpanIsSampled(spans[s].span) /\ Held(s)'
               /\ lastBaggage'[s] # lastBaggage[s])
            => \A n \in BaggageNames :
                  GetBaggageItem(spans'[s].span, n) =
                     IF lastBaggage'[s][n] # lastBaggage[s][n]
                     THEN LastItem(lastBaggage'[s], n)
                     ELSE GetBaggageItem(spans[s].span, n)]_vars
    /\ [][\A s \in Slots :
            (Held(s) /\ SpanIsSampled(spans[s].span) /\ spans'[s].status = "dropped")
            => /\ Len(queue') = Len(queue) + 1
               /\ queue'[Len(queue')].span.context.baggage_items = Baggage(spans[s].span)]_vars

\* a span child-of the context with baggage {user: 42} got
\* set_baggage_item(user, 7) and was dropped: its FinishedSpan has {user: 7}
C12_Witness ==
    \E s \in Slots :
        /\ refCalls[s] = <<[kind |-> "child_of",
                            context |-> Some(SpanContextNew("x1", <<BaggageItem("user", "42")>>))]>>
        /\ Len(Delivered(s)) = 1
        /\ Delivered(s)[1].context.baggage_items = <<BaggageItem("user", "7")>>


(***************************************************************************)
(* SpecTime: client programs that start one span at a time, with or        *)
(* without an explicit start time, while the clock advances; they call     *)
(* set_finish_time any number of times, or not at all, log, and drop the   *)
(* span.                                                                   *)
(***************************************************************************)
NextTime ==
    \/ TracerSpan(MaxSpansDeep, "fetch")
    \/ \E time \in Times : BuilderStartTime(time)
    \/ \E answer \in BOOLEAN : Start(MaxSpansDeep, answer, "t1")
    \/ \E s \in Slots, time \in Times : SetFinishTime(s, time)
    \/ \E s \in Slots : Log(s, {"event"})
    \/ \E s \in Slots : Drop(s)
    \/ Recv
    \/ Tick

SpecTime == Init /\ [][NextTime]_vars

\* C13: every FinishedSpan has a finish time: the argument of the last
\* set_finish_time call on the span if there was one, and otherwise the
\* clock at the moment of the drop (not the clock at the start or at an
\* earlier operation).
C13_FinishTimeSetOrDropClock ==
    \A s \in Slots : \A i \in 1 .. Len(Delivered(s)) :
        /\ Delivered(s)[i].finish_time \in Times
        /\ Delivered(s)[i].finish_time =
              IF IsSome(spans[s].finishSet) THEN Unwrap(spans[s].finishSet)
              ELSE Unwrap(spans[s].droppedAt)

\* a span started at clock 0 was dropped later without set_finish_time:
\* its finish time is the later clock
C13_Witness ==
    \E s \in Slots :
        /\ Len(Delivered(s)) = 1
        /\ spans[s].finishSet = None
        /\ spans[s].startedAt = Some(0)
        /\ spans[s].droppedAt = Some(MaxTime)
        /\ Delivered(s)[1].start_time = 0
        /\ Delivered(s)[1].finish_time = MaxTime


(***************************************************************************)
(* SpecConcurrent: several spans are started, tagged or not, and each is   *)
(* dropped by a thread of its own, the two steps of the drops interleaved  *)
(* in any order, all sending to the one channel whose receiver takes       *)
(* values.  A thread in the middle of a drop keeps running, and the        *)
(* receiver keeps polling.                                                 *)
(***************************************************************************)
NextConcurrent ==
    \/ TracerSpan(MaxSpans, "fetch")
    \/ \E answer \in BOOLEAN : Start(MaxSpans, answer, "t1")
    \/ \E s \in Slots : SetTag(s, Tag("a", String("v2")))
    \/ \E s \in Slots : DropTake(s)
    \/ \E s \in Slots : DropSend(s)
    \/ Recv

SpecConcurrent ==
    /\ Init
    /\ [][NextConcurrent]_vars
    /\ \A s \in Slots : WF_vars(DropSend(s))
    /\ WF_vars(Recv)

\* C14: active spans dropped concurrently by different threads: the send
\* of each drop can always be taken, whatever the receiver has or has not
\* taken; no span has a FinishedSpan on the channel before its drop sent it,
\* none has two, every dropped one has exactly one, and each is eventually
\* received exactly once.
C14_ConcurrentDropsDeliverEach ==
    /\ [](\A s \in Slots : spans[s].status = "dropping" => ENABLED DropSend(s))
    /\ [](\A s \in Slots : Len(Delivered(s)) <= 1)
    /\ [](\A s \in Slots : spans[s].status \in {"free", "held", "dropping"}
                              => Delivered(s) = << >>)
    /\ [](\A s \in Slots : (spans[s].status = "dropped" /\ spans[s].sampled)
                              => Len(Delivered(s)) = 1)
    /\ \A s \in Slots : (spans[s].status = "dropping") ~> (Len(From(received, s)) = 1)

\* both spans were in the middle of their drops at once, the second
\* span's value was sent and received first
C14_Witness ==
    /\ spans[1].status = "dropping"
    /\ Len(From(received, 2)) = 1
    /\ From(received, 1) = << >>


(***************************************************************************)
(* SpecLogs: client programs that start one span at a time, log records    *)
(* of two kinds on it in any order, with set_tag calls in between, and     *)
(* drop it, while the clock advances.                                      *)
(***************************************************************************)
LogInputs == {{"event"}, {"error"}}

NextLogs ==
    \/ TracerSpan(MaxSpansDeep, "fetch")
    \/ \E answer \in BOOLEAN : Start(MaxSpansDeep, answer, "t1")
    \/ \E s \in Slots, fields \in LogInputs : Log(s, fields)
    \/ \E s \in Slots : SetTag(s, Tag("a", String("v2")))
    \/ \E s \in Slots : Drop(s)
    \/ Tick

SpecLogs == Init /\ [][NextLogs]_vars

\* p is a prefix of q
IsPrefix(p, q) == Len(p) <= Len(q) /\ SubSeq(q, 1, Len(p)) = p

NextAbandon ==
    \/ TracerSpan(MaxSpans, "fetch")
    \/ BuilderTag(Tag("a", String("v1")))
    \/ BuilderStartTime(MaxTime)
    \/ \E s \in Slots : BuilderChildOfSpan(s)
    \/ BuilderFollowsFrom(ContextAsRef(FollowedContext))
    \/ Start(MaxSpans, TRUE, "t1")
    \/ AbandonBuilder

SpecAbandon == Init /\ [][NextAbandon]_vars

\* C16: a builder that is configured and then let go without start /
\* start_with_context has no effect outside itself: every step on the
\* builder, the one that lets it go included, leaves the spans (whose
\* contexts it may reference), the channel and the sampler as they were,
\* and every FinishedSpan on the channel is that of a dropped span.
C16_AbandonedBuilderNoEffect ==
    /\ [](\A i \in 1 .. Len(received \o queue) :
             /\ (received \o queue)[i].from \in Slots
             /\ spans[(received \o queue)[i].from].status = "dropped")
    /\ [][(IsSome(builder) /\ \A s \in Slots : spans'[s].status = spans[s].status)
            => /\ spans' = spans
               /\ queue' = queue
               /\ received' = received
               /\ samplerLog' = samplerLog]_vars

\* a builder that got child_of(a held span) and follows_from was let go:
\* the span is still held as it was and nothing is on the channel
C16_Witness ==
    /\ builder = None
    /\ Len(refCalls[0]) = 2
    /\ refCalls[0][1].kind = "child_of" /\ refCalls[0][1].context = SpanAsRef(1)
    /\ refCalls[0][2].kind = "follows_from"
    /\ Held(1)
    /\ received \o queue = << >>


(***************************************************************************)
(* SpecState: client programs that start one span at a time, sampled or    *)
(* not, call every operation of the Span handle on it in any order, the    *)
(* set_tag with a sampling.priority of 0 or less, and drop it.             *)
(***************************************************************************)
NextState ==
    \/ TracerSpan(MaxSpansDeep, "fetch")
    \/ \E answer \in BOOLEAN : Start(MaxSpansDeep, answer, "t1")
    \/ \E s \in Slots : SetOperationName(s, "store")
    \/ \E s \in Slots : SetFinishTime(s, MaxTime)
    \/ \E s \in Slots, n \in {-1, 0} : SetTag(s, Tag(SamplingPriority, Integer(n)))
    \/ \E s \in Slots : SetBaggageItem(s, BaggageItem("user", "7"))
    \/ \E s \in Slots : Log(s, {"event"})
    \/ \E s \in Slots : Drop(s)
    \/ Recv

SpecState == Init /\ [][NextState]_vars

\* C17: whether a span is active or disabled is decided when it is started
\* and no operation changes it: a held span is active exactly if it was
\* sampled at the start, whatever was called on it since (a set_tag of a
\* sampling.priority of 0 or less included); a span only goes from not started to held
\* and from held to dropped; and a dropped span has sent exactly one
\* FinishedSpan if it was active and none if it was disabled.
C17_StateDecidedAtStart ==
    /\ [](\A s \in Slots :
             /\ Held(s) => (SpanIsSampled(spans[s].span) <=> spans[s].sampled)
             /\ spans[s].status = "dropped"
                   => Len(Delivered(s)) = (IF spans[s].sampled THEN 1 ELSE 0)
             /\ spans[s].status # "dropped" => Delivered(s) = << >>)
    /\ [][\A s \in Slots :
             /\ spans'[s].status # spans[s].status
                   => \/ spans[s].status = "free" /\ spans'[s].status = "held"
                      \/ spans[s].status = "held" /\ spans'[s].status = "dropped"
             /\ spans[s].status # "free" => spans'[s].sampled = spans[s].sampled]_vars

\* an active span got set_tag(sampling.priority, 0) and the other
\* operations, was dropped, and its FinishedSpan was received
C17_Witness ==
    \E s \in Slots :
        /\ spans[s].status = "dropped"
        /\ spans[s].sampled
        /\ lastTag[s][SamplingPriority] = Some(Integer(0))
        /\ Len(From(received, s)) = 1
        /\ From(received, s)[1].operation_name = "store"
        /\ From(received, s)[1].logs # << >>


(***************************************************************************)
(* SpecOrder: client programs that call tag several times on a builder,    *)
(* with sampling.priority values of both kinds and another tag, in any     *)
(* order, make it child of a context whose baggage is not sorted, and      *)
(* start it.                                                               *)
(***************************************************************************)
OrderInputs ==
    {Tag(SamplingPriority, Integer(1)), Tag(SamplingPriority, Integer(0)),
     Tag(SamplingPriority, String("high")), Tag("a", String("v1"))}

\* a context whose baggage is not in name order
UnsortedContext ==
    SpanContextNew("x2", <<BaggageItem("user", "7"), BaggageItem("k", "1")>>)

NextOrder ==
    \/ TracerSpan(MaxSpansDeep, "fetch")
    \/ \E tag \in OrderInputs : BuilderTag(tag)
    \/ BuilderChildOf(ContextAsRef(UnsortedContext))
    \/ \E answer \in BOOLEAN : Start(MaxSpansDeep, answer, "t1")
    \/ \E s \in Slots : Drop(s)

SpecOrder == Init /\ [][NextOrder]_vars

\* C19: the builder is normalized before the sampling decision.  When a
\* span is started, the decision follows the value of the last
\* tag(sampling.priority, ..) call only: an Integer decides by itself (> 0)
\* and the sampler is not asked (1 then 0 gives a disabled span); anything
\* else, or no such call, and the sampler is asked once and decides (0 then
\* a non-Integer).  The CandidateSpan the sampler is handed has its tags and
\* its baggage strictly sorted by name, one per name, with the last value
\* written for each.
C19_NormalizedBeforeGate ==
    /\ [][\A s \in Slots :
            (spans[s].status = "free" /\ Held(s)')
            => LET last == lastTag[0][SamplingPriority]
               IN IF IsSome(last) /\ Unwrap(last).kind = "Integer"
                  THEN /\ spans'[s].sampled <=> Unwrap(last).i > 0
                       /\ samplerLog'[s] = << >>
                       /\ spans'[s].handed = None
                  ELSE /\ samplerLog'[s] = <<spans'[s].sampled>>
                       /\ IsSome(spans'[s].handed)
                       /\ HoldsLastWrites(Unwrap(spans'[s].handed).tags, lastTag[0])
                       /\ HoldsLastWrites(Unwrap(spans'[s].handed).baggage_items,
                                          lastBaggage[0])]_vars
    /\ [](\A s \in Slots : IsSome(spans[s].handed)
             => /\ StrictlySorted(Unwrap(spans[s].handed).tags)
                /\ StrictlySorted(Unwrap(spans[s].handed).baggage_items))

\* the sampler was handed tags [a, sampling.priority = "high"] and baggage
\* [k, user], both sorted, from a builder child of the unsorted context,
\* and it said no
C19_Witness ==
    \E s \in Slots :
        /\ spans[s].status = "held"
        /\ ~spans[s].sampled
        /\ samplerLog[s] = <<FALSE>>
        /\ IsSome(spans[s].handed)
        /\ Unwrap(spans[s].handed).tags =
              <<Tag("a", String("v1")), Tag(SamplingPriority, String("high"))>>
        /\ Unwrap(spans[s].handed).baggage_items =
              <<BaggageItem("k", "1"), BaggageItem("user", "7")>>
        /\ Unwrap(spans[s].handed).references = <<ChildOf("x2")>>


(***************************************************************************)
(* SpecRefSeq: client programs that hold several spans, active and         *)
(* disabled, make builders child of those spans and following an           *)
(* extracted context, any number of times in any order, start them, tag    *)
(* the started spans and drop them.                                        *)
(***************************************************************************)
NextRefSeq ==
    \/ TracerSpan(MaxSpans, "fetch")
    \/ \E s \in Slots : BuilderChildOfSpan(s)
    \/ BuilderFollowsFrom(ContextAsRef(FollowedContext))
    \/ \E answer \in BOOLEAN : Start(MaxSpans, answer, "t1")
    \/ \E s \in Slots : SetTag(s, Tag("a", String("v2")))
    \/ \E s \in Slots : Drop(s)

SpecRefSeq == Init /\ [][NextRefSeq]_vars

\* C20: the references of an active span are exactly the child_of /
\* follows_from calls made on its builder with an argument that carried a
\* context, in call order, each with the call's kind and the context's
\* state, repeated calls kept; no step changes them while the span is
\* held; and the FinishedSpan carries the same sequence.
C20_ReferencesAreTheCalls ==
    /\ [](\A s \in Slots :
             /\ (Held(s) /\ SpanIsSampled(spans[s].span))
                   => Unwrap(spans[s].span).references = RefsOf(refCalls[s])
             /\ \A i \in 1 .. Len(Delivered(s)) :
                   Delivered(s)[i].references = RefsOf(refCalls[s]))
    /\ [][\A s \in Slots :
             (Held(s) /\ SpanIsSampled(spans[s].span) /\ Held(s)')
             => Unwrap(spans'[s].span).references = Unwrap(spans[s].span).references]_vars

\* a span whose builder got child_of(a disabled span) and then
\* follows_from(context) was tagged and dropped: its FinishedSpan has the
\* one reference of the second call
C20_Witness ==
    \E s \in Slots :
        /\ Len(Delivered(s)) = 1
        /\ Delivered(s)[1].tags # << >>
        /\ Len(refCalls[s]) = 2
        /\ refCalls[s][1] = [kind |-> "child_of", context |-> None]
        /\ Delivered(s)[1].references = <<FollowsFrom("x1")>>

====
